---- MODULE Spec2Model ----
(***************************************************************************)
(* Model of the diff pipeline of app/src/lib/git/diff.ts (classifier,      *)
(* preview generator with its on-disk cache), of the sketchtool wrapper    *)
(* and of the ModifiedImageDiff view state.                                *)
(*                                                                         *)
(* Paths, commitishes and process output are strings; the path and string  *)
(* functions of the source (Path.basename, Path.extname, indexOf, replace, *)
(* trim, the line-endings regular expression) are computed on characters.  *)
(***************************************************************************)
EXTENDS Integers, Sequences, FiniteSets, TLC

\* ------------------------------------------------------------------ bounds
\* Number of diff requests issued in one behaviour.
MaxRequests == 2

\* ------------------------------------------------------- string functions
None == "<undefined>"

\* undefined, where an Image, a design-document file or a line-endings
\* change is expected.
NoImage == [contents |-> None, mediaType |-> None]
NoFile == [id |-> None, path |-> None]
NoLineEndingsChange == [from |-> None, to |-> None]

\* String.prototype.indexOf at a given position: does t occur in s at the
\* 1-based index i ?
OccursAt(s, t, i) ==
    /\ i >= 1
    /\ i + Len(t) - 1 <= Len(s)
    /\ SubSeq(s, i, i + Len(t) - 1) = t

\* String.prototype.indexOf(t): 0-based index of the first occurrence, or -1.
IndexOf(s, t) ==
    LET hits == {i \in 1..(Len(s) + 1) : OccursAt(s, t, i)}
    IN  IF hits = {} THEN -1
        ELSE (CHOOSE i \in hits : \A j \in hits : i <= j) - 1

\* String.prototype.lastIndexOf(t): 0-based index of the last occurrence, or -1.
LastIndexOf(s, t) ==
    LET hits == {i \in 1..(Len(s) + 1) : OccursAt(s, t, i)}
    IN  IF hits = {} THEN -1
        ELSE (CHOOSE i \in hits : \A j \in hits : i >= j) - 1

\* String.prototype.replace(pat, rep) with a string pattern: the first
\* occurrence only.
Replace(s, pat, rep) ==
    LET i == IndexOf(s, pat)
    IN  IF i = -1 THEN s
        ELSE SubSeq(s, 1, i) \o rep \o SubSeq(s, i + Len(pat) + 1, Len(s))

IsSpace(s, i) == SubSeq(s, i, i) \in {" ", "\n", "\t"}

\* String.prototype.trim
Trim(s) ==
    LET keep == {i \in 1..Len(s) : ~IsSpace(s, i)}
    IN  IF keep = {} THEN ""
        ELSE SubSeq(s, CHOOSE i \in keep : \A j \in keep : i <= j,
                       CHOOSE i \in keep : \A j \in keep : i >= j)

\* Path.basename of a normalised path without trailing separator.
Basename(p) == SubSeq(p, LastIndexOf(p, "/") + 2, Len(p))

\* Path.dirname of a normalised path without trailing separator.
Dirname(p) ==
    LET i == LastIndexOf(p, "/")
    IN  IF i = -1 THEN "."
        ELSE IF i = 0 THEN "/"
        ELSE SubSeq(p, 1, i)

\* Path.extname: from the last '.' of the basename to its end; empty when
\* there is no '.' or the only '.' is the first character of the basename.
Extname(p) ==
    LET b == Basename(p)
        i == LastIndexOf(b, ".")
    IN  IF i <= 0 THEN "" ELSE SubSeq(b, i + 1, Len(b))

\* Path.join of two normalised, non-empty pieces.
Join(a, b) == a \o "/" \o b

\* ------------------------------------------------------ program constants
\* maximumDiffStringSize (models/diff), scaled to a length the model can
\* enumerate on both sides of.
maximumDiffStringSize == 44

\* imageFileExtensions with an extension left out.
imageFileExtensions_NoGif == {".png", ".jpg", ".jpeg"}

\* The extensions the app can render as images.
imageFileExtensions == {".png", ".jpg", ".jpeg", ".gif"}

\* The design-document files known to the repository (IKactusFile: id is the
\* path relative to the repository, path the absolute path).
RepositoryPath == "/r"
RepositoryId == "1"
kactusFiles == << [id |-> "d", path |-> "/r/d"] >>

\* getUserDataPath(), getTempPath()
UserDataPath == "/u"
TempPath == "/t"

\* The commit HEAD points at (what getHEADsha resolves to).
HEADsha == "c1"

\* ---------------------------------------------------------- pure functions
\* isValidBuffer with the comparison off by one.
isValidBuffer_Inclusive(length) == length <= maximumDiffStringSize

\* isValidBuffer
isValidBuffer(length) == length < maximumDiffStringSize

\* getMediaType
getMediaType(extension) ==
    IF extension = ".png" THEN "image/png"
    ELSE IF extension = ".jpg" \/ extension = ".jpeg" THEN "image/jpg"
    ELSE IF extension = ".gif" THEN "image/gif"
    ELSE "text/plain"

\* parseLineEndingText (models/diff): the three line-ending names, anything
\* else is null.
parseLineEndingText(text) ==
    IF Trim(text) \in {"CR", "LF", "CRLF"} THEN Trim(text) ELSE None

\* lineEndingsChangeRegex.exec: the leftmost match of
\* /warning: (CRLF|CR|LF) will be replaced by (CRLF|CR|LF) in .*/
lineEndingsChangeRegex(s) ==
    LET toks == {"CRLF", "CR", "LF"}
        lit(a, b) == "warning: " \o a \o " will be replaced by " \o b \o " in "
        ms == {m \in (1..(Len(s) + 1)) \X toks \X toks :
                   OccursAt(s, lit(m[2], m[3]), m[1])}
    IN  IF ms = {} THEN <<>>
        ELSE CHOOSE m \in ms : \A n \in ms : m[1] <= n[1]

\* parseLineEndingsWarning with the two groups of the match exchanged.
parseLineEndingsWarning_Swapped(error) ==
    IF Len(error) = 0 THEN NoLineEndingsChange
    ELSE LET match == lineEndingsChangeRegex(error)
         IN  IF match = <<>> THEN NoLineEndingsChange
             ELSE LET from == parseLineEndingText(match[3])
                      to == parseLineEndingText(match[2])
                  IN  IF from # None /\ to # None
                      THEN [from |-> from, to |-> to]
                      ELSE NoLineEndingsChange

\* parseLineEndingsWarning
parseLineEndingsWarning(error) ==
    IF Len(error) = 0 THEN NoLineEndingsChange
    ELSE LET match == lineEndingsChangeRegex(error)
         IN  IF match = <<>> THEN NoLineEndingsChange
             ELSE LET from == parseLineEndingText(match[2])
                      to == parseLineEndingText(match[3])
                  IN  IF from # None /\ to # None
                      THEN [from |-> from, to |-> to]
                      ELSE NoLineEndingsChange

\* DiffParser.parse applied to the last NUL-separated piece of the output
\* (diffFromRawDiffOutput).  A patch is carried as its text; the parser
\* reports it binary when it holds git's binary marker.
diffFromRawDiffOutput(pieces) ==
    LET patch == pieces[Len(pieces)]
    IN  [contents |-> patch,
         hunks |-> IF IndexOf(patch, "Binary files") # -1 THEN <<>>
                   ELSE << patch >>,
         isBinary |-> IndexOf(patch, "Binary files") # -1]

\* findKactusFile matching on the id without the separator.
findKactusFile_NoSeparator(files, path) ==
    LET hits == {i \in 1..Len(files) : IndexOf(path, files[i].id) = 0}
    IN  IF hits = {} THEN NoFile
        ELSE files[CHOOSE i \in hits : \A j \in hits : i <= j]

\* kactusFiles.find(f => file.path.indexOf(f.id + '/') === 0): the first
\* matching file, or undefined.
findKactusFile(files, path) ==
    LET hits == {i \in 1..Len(files) : IndexOf(path, files[i].id \o "/") = 0}
    IN  IF hits = {} THEN NoFile
        ELSE files[CHOOSE i \in hits : \A j \in hits : i <= j]

\* The fragment kind getSketchDiff derives from the file name.
sketchFileType(path) ==
    LET name == Basename(path)
    IN  IF name = "document.json" THEN "Document"
        ELSE IF name = "page.json" THEN "Page"
        ELSE IF name = "artboard.json" THEN "Artboard"
        ELSE IF name = "shapeGroup.json" THEN "ShapeGroup"
        ELSE IF name = "group.json" THEN "Group"
        ELSE "Layer"

\* The item generatePreview hands to the export tool.
previewItem(file, type) ==
    IF type = "Document" THEN "document"
    ELSE IF type \in {"Page", "Artboard", "ShapeGroup", "Group"}
         THEN Basename(Dirname(file))
    ELSE Replace(Basename(file), ".json", "")

\* The path getOldSketchPreview looks up before generating.
cachedPreviewPath(sketchStoragePath, file, type) ==
    IF type = "Document" THEN Join(sketchStoragePath, "document.png")
    ELSE IF type \in {"Page", "Artboard", "ShapeGroup", "Group"}
         THEN Join(sketchStoragePath, Basename(Dirname(file)) \o ".png")
    ELSE Join(sketchStoragePath, Replace(Basename(file), ".json", "") \o ".png")

\* The path the sketchtool wrapper resolves with, given the tool's stdout.
\* generateDocumentPreview, generatePagePreview, generateArtboardPreview,
\* generateLayerPreview.
generatedPreviewPath(output, item, type, stdout) ==
    IF type = "Document" THEN output \o "/document.png"
    ELSE IF type = "Page"
         THEN output \o "/" \o Trim(Replace(stdout, "Exported", ""))
    ELSE output \o "/" \o item \o ".png"

\* storagePath of getOldSketchPreview and the fragment's directory in it.
storagePath(commitish) ==
    Join(Join(Join(UserDataPath, "previews"), RepositoryId), commitish)

sketchStoragePath(sketchFile, commitish) ==
    Join(storagePath(commitish), sketchFile.id)

\* storagePath of getWorkingDirectorySketchPreview.
tempStoragePath(sketchFile) ==
    Join(Join(Join(TempPath, "kactus"), RepositoryId), sketchFile.id)

\* ------------------------------------------------------------------ inputs
\* AppFileStatus
Statuses == {"New", "Modified", "Deleted", "Renamed", "Conflicted"}

\* The changed paths requests are made for: one fragment of every kind under
\* the design document d, images, and files that are neither.
SketchPaths ==
    {"d/document.json", "d/p1/page.json", "d/p1/a1/artboard.json",
     "d/p1/a1/s1/shapeGroup.json", "d/p1/a1/g1/group.json", "d/p1/a1/l1.json"}

OtherPaths == {"icon.png", "b.jpeg", "d/i.gif", "x.bin", "dd/page.json"}

Paths == SketchPaths \cup OtherPaths

\* The previous path of a renamed file.
OldPathOf(path) ==
    IF path = "icon.png" THEN "old.txt"
    ELSE IF path = "d/document.json" THEN "d/old/document.json"
    ELSE IF path \in SketchPaths THEN Replace(path, "1", "0")
    ELSE "o" \o path

\* FileChange / WorkingDirectoryFileChange.  oldPath is "" when not set.
FileChanges ==
    {[path |-> p, status |-> st, oldPath |-> ""] : p \in Paths, st \in Statuses}
    \cup
    {[path |-> p, status |-> "Renamed", oldPath |-> OldPathOf(p)] : p \in Paths}

\* The commitishes getCommitDiff is called with.
Commitishes == {"c1"}

\* What git prints: the NUL-separated pieces of stdout.
TextPatch == "@@ -1 +1 @@\n-a\n+b"
BinaryPatch == "Binary files a and b differ"
Padding == "\n context line"

GitOutputs ==
    { <<":M", "f", TextPatch \o Padding>>,
      <<":M", BinaryPatch>>,
      <<":M", TextPatch \o Padding \o Padding>>,
      <<":M", BinaryPatch \o Padding>> }

\* Buffer.length of the output: the pieces and the NUL bytes between them.
RECURSIVE SumLen(_)
SumLen(pieces) ==
    IF pieces = <<>> THEN 0 ELSE Len(Head(pieces)) + SumLen(Tail(pieces))

OutputLength(pieces) == SumLen(pieces) + Len(pieces) - 1

\* What git prints on stderr.
GitErrors ==
    { "",
      "hint: warning: CRLF will be replaced by LF in f",
      "warning: XX will be replaced by LF in f" }

\* What sketchtool names the PNG of an exported item: with
\* --use-id-for-name the object id, which the item given may or may not be.
ObjectId == "oid"
ExportedNames(item, type) ==
    IF type = "Document" THEN {"document.png"}
    ELSE {item \o ".png", ObjectId \o ".png"}

\* Every name the tool can give a PNG in the requests made.
ToolNames ==
    UNION {ExportedNames(previewItem(f, sketchFileType(p)), sketchFileType(p)) :
               <<p, f>> \in {<<q, q>> : q \in Paths}
                            \cup {<<q, OldPathOf(q)>> : q \in Paths}}

\* ------------------------------------------------------------------- state
VARIABLES
    pc,        \* where the request in progress is (an await of diff.ts)
    nreq,      \* requests issued so far
    req,       \* the request: wd, file, commitish
    raw,       \* the IRawDiff parsed from git's output, with the output length
               \* and, for a diff that carries a lineEndingsChange, the stderr
               \* getWorkingDirectoryDiff parsed it from (getCommitDiff reads none)
    sides,     \* the locals current and previous of getImageDiff/getSketchDiff
    call,      \* the getOldSketchPreview / generatePreview call in progress
    result,    \* what the request settled with
    log,       \* the external operations of the request, in order
    calls,     \* the preview calls the request has finished, with how they ended
    fs,        \* the files that exist in the preview cache (user-data directory)
    served,    \* history: the last getOldSketchPreview call that returned a
               \* preview, as <<commit, file, kind, path>>
    state,     \* this.state of ModifiedImageDiff (value in thousandths)
    diffType,  \* props.diffType of ModifiedImageDiff
    container, \* width of the container element, 0 while not measured
    previews,  \* the two concurrent getOldSketchPreview calls for one fragment
    exports,   \* the files the tree export of each call has still to write
    built,     \* what the .sketch file in the cache was imported from
    props,     \* props.state of RepositoryView, as far as renderContent reads it
    content    \* what renderContent returned, with what the component rendered

view == <<state, diffType, container>>
race == <<previews, exports, built>>
repo == <<props, content>>
vars == <<pc, nreq, req, raw, sides, call, result, log, calls, fs, served,
          state, diffType, container, previews, exports, built, props, content>>

\* null, for a natural size that was not measured yet.
Null == 0 - 1

\* The slider value is kept in steps of the range input (step={0.001}):
\* ValueScale steps make 1.
ValueScale == 1000

\* The constructor of ModifiedImageDiff.
InitialState ==
    [value |-> ValueScale,
     naturalWidthBefore |-> Null, naturalHeightBefore |-> Null,
     naturalWidthAfter |-> Null, naturalHeightAfter |-> Null]

NoRequest == [wd |-> FALSE, file |-> [path |-> "", status |-> "", oldPath |-> ""],
              commitish |-> ""]
NoRaw == [contents |-> "", hunks |-> <<>>, isBinary |-> FALSE,
          length |-> 0, error |-> ""]
NoSides == [current |-> NoImage, previous |-> NoImage]
NoCall == [fn |-> None, side |-> None, file |-> "", commitish |-> "",
           sketch |-> "", output |-> "", path |-> None, wrote |-> None, ops |-> <<>>,
           prior |-> None, empty |-> FALSE, how |-> None]
NotServed == <<"", "", "", "">>

\* null, for an id, a changed file and a diff of the repository state.
NullId == "<null>"
NoFileChange == [id |-> NullId]
NoDiff == [kind |-> NullId]

\* The repository state of a repository that was just selected: the Changes
\* section, nothing changed, nothing selected, no diff loaded.
InitialProps ==
    [selectedSection |-> "Changes",
     files |-> <<>>, selectedFileID |-> NullId, diff |-> NoDiff,
     kactusFiles |-> <<>>, selectedSketchFileID |-> NullId]

\* The two requests that race, and a call that was not made yet.
Procs == {1, 2}
NoPreview == [pc |-> "idle", file |-> "", commitish |-> "", name |-> "",
              output |-> "", path |-> None, ops |-> <<>>, partial |-> FALSE,
              result |-> None]
Pending == [kind |-> "Pending"]
Rejected == [kind |-> "Rejected"]

Op(op, arg) == [op |-> op, arg |-> arg]

\* The Image getImage / getBlobImage build.
Image(contents, path) ==
    [contents |-> contents, mediaType |-> getMediaType(Extname(path))]

\* The design-document file and the fragment kind of the request.
kactusFile == findKactusFile(kactusFiles, req.file.path)
type == sketchFileType(req.file.path)

\* OldOrPath taking the file's own path for a renamed file too.
OldOrPath_IgnoresOldPath == req.file.path

\* file.oldPath || file.path
OldOrPath == IF req.file.oldPath # "" THEN req.file.oldPath ELSE req.file.path

Init ==
    /\ pc = "idle"
    /\ nreq = 0
    /\ req = NoRequest
    /\ raw = NoRaw
    /\ sides = NoSides
    /\ call = NoCall
    /\ result = Pending
    /\ log = <<>>
    /\ calls = <<>>
    /\ fs = {}
    /\ served = NotServed
    /\ state = InitialState
    /\ diffType = "TwoUp"
    /\ container = 0
    /\ previews = [p \in Procs |-> NoPreview]
    /\ exports = [p \in Procs |-> {}]
    /\ built = {}
    /\ props = InitialProps
    /\ content = [component |-> "NoChanges", rendered |-> "NoChanges"]

\* ------------------------------------------------- control flow of a request
\* The synchronous code between two awaits is evaluated as a function to the
\* next await: a control record names the next pc, the call entered, the
\* locals current/previous and the settled result.
Control(p, c, s, r) == [pc |-> p, call |-> c, sides |-> s, result |-> r]

Settle(r, s) == Control("done", NoCall, s, r)

\* The value getImageDiff returns.
ImageDiff(s) == [kind |-> "Image", previous |-> s.previous, current |-> s.current]

\* The value getSketchDiff returns.
SketchDiff(d, s) ==
    [kind |-> "Sketch", text |-> d.contents, hunks |-> d.hunks,
     sketchFile |-> kactusFile, previous |-> s.previous, current |-> s.current,
     type |-> type]

\* The Text variant of convertDiff.
TextDiff(d, lineEndingsChange) ==
    [kind |-> "Text", text |-> d.contents, hunks |-> d.hunks,
     lineEndingsChange |-> lineEndingsChange]

\* Entering getOldSketchPreview(kactusFile, repository, file, commitish, type).
BeginOld(side, file, commitish, s) ==
    Control("o_head",
            [NoCall EXCEPT !.fn = "old", !.side = side, !.file = file,
                           !.commitish = commitish],
            s, Pending)

\* BeginWorkingDirectoryPreview exporting into the cache of HEAD.
BeginWorkingDirectoryPreview_UsesCache(s) ==
    Control("g_tool",
            [NoCall EXCEPT !.fn = "wd", !.side = "current",
                           !.file = req.file.path,
                           !.sketch = kactusFile.path \o ".sketch",
                           !.output = sketchStoragePath(kactusFile, HEADsha)],
            s, Pending)

\* Entering getWorkingDirectorySketchPreview, which enters generatePreview
\* with the .sketch file of the working directory and the temporary
\* directory.
BeginWorkingDirectoryPreview(s) ==
    Control("g_tool",
            [NoCall EXCEPT !.fn = "wd", !.side = "current",
                           !.file = req.file.path,
                           !.sketch = kactusFile.path \o ".sketch",
                           !.output = tempStoragePath(kactusFile)],
            s, Pending)

\* The commitish of the previous side: HEAD in the working directory, the
\* parent of the commit otherwise.
PreviousCommitish == IF req.wd THEN "HEAD" ELSE req.commitish \o "^"

\* getImageDiff reading the current side of a deleted file too.
getImageDiff_ReadsDeleted ==
    IF req.wd /\ req.file.status = "Conflicted"
    THEN Settle([kind |-> "Image", previous |-> NoImage, current |-> NoImage],
                NoSides)
    ELSE Control("img_cur", NoCall, NoSides, Pending)

\* getImageDiff up to its first await.
getImageDiff ==
    IF req.wd /\ req.file.status = "Conflicted"
    THEN Settle([kind |-> "Image", previous |-> NoImage, current |-> NoImage],
                NoSides)
    ELSE IF req.file.status # "Deleted"
    THEN Control("img_cur", NoCall, NoSides, Pending)
    ELSE IF req.file.status # "New"
    THEN Control("img_prev", NoCall, NoSides, Pending)
    ELSE Settle(ImageDiff(NoSides), NoSides)

\* getSketchDiff without the early return for a conflicted file.
getSketchDiff_NoConflictCheck(d) ==
    IF req.file.status # "Deleted"
    THEN IF req.wd
         THEN BeginWorkingDirectoryPreview(NoSides)
         ELSE BeginOld("current", req.file.path, req.commitish, NoSides)
    ELSE IF req.file.status # "New"
    THEN BeginOld("previous", OldOrPath, PreviousCommitish, NoSides)
    ELSE Settle(SketchDiff(d, NoSides), NoSides)

\* getSketchDiff up to its first await.
getSketchDiff(d) ==
    IF req.wd /\ req.file.status = "Conflicted"
    THEN Settle(SketchDiff(d, NoSides), NoSides)
    ELSE IF req.file.status # "Deleted"
    THEN IF req.wd
         THEN BeginWorkingDirectoryPreview(NoSides)
         ELSE BeginOld("current", req.file.path, req.commitish, NoSides)
    ELSE IF req.file.status # "New"
    THEN BeginOld("previous", OldOrPath, PreviousCommitish, NoSides)
    ELSE Settle(SketchDiff(d, NoSides), NoSides)

\* convertDiff up to its first await.
convertDiff(d, lineEndingsChange) ==
    IF d.isBinary
    THEN IF Extname(req.file.path) \notin imageFileExtensions
         THEN Settle([kind |-> "Binary"], NoSides)
         ELSE getImageDiff
    ELSE IF kactusFile # NoFile
    THEN getSketchDiff(d)
    ELSE Settle(TextDiff(d, lineEndingsChange), NoSides)

\* AfterSide looking for the previous side of an added file too.
AfterSide_ReadsPreviousOfNew(side, v) ==
    LET s == [sides EXCEPT ![side] = v]
    IN  IF side = "current"
        THEN IF raw.isBinary
             THEN Control("img_prev", NoCall, s, Pending)
             ELSE BeginOld("previous", OldOrPath, PreviousCommitish, s)
        ELSE IF raw.isBinary
             THEN Settle(ImageDiff(s), s)
             ELSE Settle(SketchDiff(raw, s), s)

\* getImageDiff / getSketchDiff after the side `side` got the value v: go on
\* to the previous side, or return the diff.
AfterSide(side, v) ==
    LET s == [sides EXCEPT ![side] = v]
    IN  IF side = "current" /\ req.file.status # "New"
        THEN IF raw.isBinary
             THEN Control("img_prev", NoCall, s, Pending)
             ELSE BeginOld("previous", OldOrPath, PreviousCommitish, s)
        ELSE IF raw.isBinary
             THEN Settle(ImageDiff(s), s)
             ELSE Settle(SketchDiff(raw, s), s)

Go(c) ==
    /\ pc' = c.pc
    /\ call' = c.call
    /\ sides' = c.sides
    /\ result' = c.result

\* A rejection that nothing catches settles the request as rejected.
Reject == Go(Settle(Rejected, sides))

\* ------------------------------------------------------------------ actions
\* getWorkingDirectoryDiff / getCommitDiff is called: git is spawned.  The
\* requests of one behaviour are for one changed path (the file selected and
\* selected again), with any status, in the working directory or in a commit;
\* a file in a commit is never conflicted.
Request(wd, file, commitish) ==
    /\ pc \in {"idle", "done"}
    /\ nreq < MaxRequests
    /\ nreq > 0 => file.path = req.file.path
    /\ wd \/ file.status # "Conflicted"
    /\ commitish \in (IF wd THEN {"HEAD"} ELSE Commitishes)
    /\ nreq' = nreq + 1
    /\ req' = [wd |-> wd, file |-> file, commitish |-> commitish]
    /\ raw' = NoRaw
    /\ pc' = "git"
    /\ sides' = NoSides
    /\ call' = NoCall
    /\ result' = Pending
    /\ log' = << Op("git", IF wd THEN "diff" ELSE "log") >>
    /\ calls' = <<>>
    /\ UNCHANGED <<repo, race, view, fs, served>>

\* spawnAndComplete rejects: the request rejects.
GitFail ==
    /\ pc = "git"
    /\ Reject
    /\ UNCHANGED <<repo, race, view, nreq, req, raw, log, calls, fs, served>>

\* spawnAndComplete resolves with stdout and stderr: the size check, then
\* diffFromRawDiffOutput, parseLineEndingsWarning and convertDiff.
GitComplete(output, error) ==
    /\ pc = "git"
    /\ IF ~isValidBuffer(OutputLength(output))
       THEN /\ raw' = [NoRaw EXCEPT !.length = OutputLength(output)]
            /\ Go(Settle([kind |-> "TooLarge", length |-> OutputLength(output)],
                         NoSides))
            /\ log' = log
       ELSE LET d == diffFromRawDiffOutput(output)
                lineEndingsChange ==
                    IF req.wd THEN parseLineEndingsWarning(error)
                    ELSE NoLineEndingsChange
                c == convertDiff(d, lineEndingsChange)
            IN  /\ raw' = d @@ [length |-> OutputLength(output),
                                error |-> IF req.wd /\ c.result.kind = "Text"
                                          THEN error ELSE ""]
                /\ Go(c)
                /\ log' = log \o << Op("parse", d.contents), Op("convertDiff", "") >>
    /\ UNCHANGED <<repo, race, view, nreq, req, calls, fs, served>>

\* getImageDiff: the current side is read, from the working directory
\* (getWorkingDirectoryImage) or from the commit (getBlobImage).
ImageCurrent(ok) ==
    /\ pc = "img_cur"
    /\ LET path == IF req.wd THEN Join(RepositoryPath, req.file.path)
                   ELSE req.file.path
           op == IF req.wd THEN Op("readFile", path)
                 ELSE Op("getBlobContents", req.commitish \o ":" \o path)
       IN  /\ log' = Append(log, op)
           /\ IF ok THEN Go(AfterSide("current", Image(op.arg, path)))
              ELSE Reject
    /\ UNCHANGED <<repo, race, view, nreq, req, raw, calls, fs, served>>

\* getImageDiff: the previous side is read with getBlobImage.
ImagePrevious(ok) ==
    /\ pc = "img_prev"
    /\ LET op == Op("getBlobContents", PreviousCommitish \o ":" \o OldOrPath)
       IN  /\ log' = Append(log, op)
           /\ IF ok THEN Go(AfterSide("previous", Image(op.arg, OldOrPath)))
              ELSE Reject
    /\ UNCHANGED <<repo, race, view, nreq, req, raw, calls, fs, served>>

\* The call adds an external operation to its record and to the request's.
Did(c, ops) == [c EXCEPT !.ops = c.ops \o ops]

\* A preview call ends with the value v (NoImage: undefined) and the caller
\* goes on with the side.
Return(c, v, how) ==
    /\ calls' = Append(calls, [c EXCEPT !.how = how])
    /\ served' = IF c.fn # "old" THEN served
                 ELSE IF v # NoImage THEN <<c.commitish, c.file, type, c.path>>
                 ELSE NotServed
    /\ Go(AfterSide(c.side, v))

\* A preview call throws: getSketchDiff catches what getOldSketchPreview
\* throws and leaves the side undefined; nothing catches what
\* getWorkingDirectorySketchPreview throws.
Throw(c) ==
    /\ calls' = Append(calls, [c EXCEPT !.how = "threw"])
    /\ IF c.fn = "old"
       THEN /\ served' = NotServed
            /\ Go(AfterSide(c.side, NoImage))
       ELSE /\ served' = served
            /\ Reject

\* getOldSketchPreview: 'HEAD' is resolved with getHEADsha, then storagePath
\* and sketchStoragePath are computed.
OldResolve(ok) ==
    /\ pc = "o_head"
    /\ LET commitish == IF call.commitish = "HEAD" THEN HEADsha
                        ELSE call.commitish
           ops == IF call.commitish = "HEAD" THEN << Op("getHEADsha", "") >>
                  ELSE <<>>
           dir == sketchStoragePath(kactusFile, commitish)
           c == [Did(call, ops) EXCEPT
                    !.commitish = commitish,
                    !.sketch = dir \o ".sketch",
                    !.output = dir,
                    !.prior = IF <<served[1], served[2], served[3]>> =
                                 <<commitish, call.file, type>>
                              THEN served[4] ELSE None,
                    !.empty = ({f \in fs : IndexOf(f, dir) = 0} = {})]
       IN  /\ log' = log \o ops
           /\ IF ok
              THEN /\ pc' = "o_doc"
                   /\ call' = c
                   /\ UNCHANGED <<sides, result, calls, served>>
              ELSE /\ call.commitish = "HEAD"
                   /\ Throw(Did(call, ops))
    /\ UNCHANGED <<repo, race, view, nreq, req, raw, fs>>

\* OldDocumentExists taking the tree for exported whatever fileExists says.
OldDocumentExists_SkipsExport ==
    /\ pc = "o_doc"
    /\ LET op == Op("exists", Join(call.output, "document.json"))
       IN  /\ log' = Append(log, op)
           /\ call' = Did(call, <<op>>)
           /\ pc' = "o_sk"
    /\ UNCHANGED <<repo, race, view, nreq, req, raw, sides, result, calls, fs, served>>

\* getOldSketchPreview: fileExists(<sketchStoragePath>/document.json)
OldDocumentExists ==
    /\ pc = "o_doc"
    /\ LET op == Op("exists", Join(call.output, "document.json"))
       IN  /\ log' = Append(log, op)
           /\ call' = Did(call, <<op>>)
           /\ pc' = IF op.arg \in fs THEN "o_sk" ELSE "o_export"
    /\ UNCHANGED <<repo, race, view, nreq, req, raw, sides, result, calls, fs, served>>

\* getOldSketchPreview: mkdirP and exportTreeAtCommit.  The export writes the
\* tree of the commit, which holds the document's document.json or does not.
OldExport(outcome) ==
    /\ pc = "o_export"
    /\ LET ops == << Op("mkdirP", storagePath(call.commitish)),
                     Op("exportTreeAtCommit", call.commitish) >>
       IN  /\ log' = log \o ops
           /\ IF outcome = "failed"
              THEN /\ Throw(Did(call, ops))
                   /\ fs' = fs
              ELSE /\ pc' = "o_sk"
                   /\ call' = Did(call, ops)
                   /\ fs' = IF outcome = "document"
                            THEN fs \cup {Join(call.output, "document.json")}
                            ELSE fs
                   /\ UNCHANGED <<sides, result, calls, served>>
    /\ UNCHANGED <<repo, race, view, nreq, req, raw>>

\* getOldSketchPreview: fileExists(<sketchStoragePath>.sketch)
OldSketchExists ==
    /\ pc = "o_sk"
    /\ LET op == Op("exists", call.output \o ".sketch")
       IN  /\ log' = Append(log, op)
           /\ call' = Did(call, <<op>>)
           /\ pc' = IF op.arg \in fs THEN "o_png" ELSE "o_import"
    /\ UNCHANGED <<repo, race, view, nreq, req, raw, sides, result, calls, fs, served>>

\* getOldSketchPreview: importFolder rebuilds the .sketch file from the
\* exported document data; there is nothing to rebuild from without it.
OldImport(ok) ==
    /\ pc = "o_import"
    /\ LET ops == << Op("importFolder", call.output) >>
       IN  /\ log' = log \o ops
           /\ IF ok /\ Join(call.output, "document.json") \in fs
              THEN /\ pc' = "o_png"
                   /\ call' = Did(call, ops)
                   /\ fs' = fs \cup {call.output \o ".sketch"}
                   /\ UNCHANGED <<sides, result, calls, served>>
              ELSE /\ Throw(Did(call, ops))
                   /\ fs' = fs
    /\ UNCHANGED <<repo, race, view, nreq, req, raw>>

\* OldPreviewExists running the export tool whether the preview exists or not.
OldPreviewExists_IgnoresCache ==
    /\ pc = "o_png"
    /\ LET path == cachedPreviewPath(call.output, call.file, type)
           op == Op("exists", path)
       IN  /\ log' = Append(log, op)
           /\ call' = [Did(call, <<op>>) EXCEPT !.path = path]
           /\ pc' = "g_tool"
    /\ UNCHANGED <<repo, race, view, nreq, req, raw, sides, result, calls, fs, served>>

\* getOldSketchPreview: the output path of the fragment kind is computed and
\* looked up.
OldPreviewExists ==
    /\ pc = "o_png"
    /\ LET path == cachedPreviewPath(call.output, call.file, type)
           op == Op("exists", path)
       IN  /\ log' = Append(log, op)
           /\ call' = [Did(call, <<op>>) EXCEPT !.path = path]
           /\ pc' = IF path \in fs THEN "o_read" ELSE "g_tool"
    /\ UNCHANGED <<repo, race, view, nreq, req, raw, sides, result, calls, fs, served>>

\* getOldSketchPreview: the cached preview is read with getImage.
OldRead(ok) ==
    /\ pc = "o_read"
    /\ LET ops == << Op("readFile", call.path) >>
       IN  /\ log' = log \o ops
           /\ IF ok /\ call.path \in fs
              THEN Return(Did(call, ops), Image(call.path, call.path), "hit")
              ELSE Throw(Did(call, ops))
    /\ UNCHANGED <<repo, race, view, nreq, req, raw, fs>>

\* GeneratePreviewTool running the export tool again after it failed.
GeneratePreviewTool_Retries(ok, name) ==
    /\ pc = "g_tool"
    /\ LET item == previewItem(call.file, type)
           ops == << Op("sketchtool", call.sketch \o ":" \o type \o ":" \o item
                                          \o ":" \o call.output) >>
           stdout == "Exported " \o name \o "\n"
       IN  /\ name \in ExportedNames(item, type)
           /\ log' = log \o ops
           /\ pc' = IF ok THEN "g_img" ELSE "g_tool"
           /\ call' = IF ok
                      THEN [Did(call, ops) EXCEPT
                               !.path = generatedPreviewPath(call.output, item,
                                                             type, stdout),
                               !.wrote = Join(call.output, name)]
                      ELSE Did(call, ops)
           /\ fs' = IF ok /\ IndexOf(call.output, UserDataPath \o "/") = 0
                     THEN fs \cup {Join(call.output, name)}
                     ELSE fs
    /\ UNCHANGED <<repo, race, view, nreq, req, raw, sides, result, calls, served>>

\* generatePreview: the export tool is run through the wrapper of the
\* fragment kind.  A rejection of the wrapper is caught and the preview is
\* undefined; otherwise the wrapper resolves with the path it derives.
\* fs holds the files of the preview cache: a PNG written under the
\* user-data directory is added to it.
GeneratePreviewTool(ok, name) ==
    /\ pc = "g_tool"
    /\ LET item == previewItem(call.file, type)
           ops == << Op("sketchtool", call.sketch \o ":" \o type \o ":" \o item
                                          \o ":" \o call.output) >>
           stdout == "Exported " \o name \o "\n"
       IN  /\ name \in ExportedNames(item, type)
           /\ log' = log \o ops
           /\ IF ok
              THEN /\ pc' = "g_img"
                   /\ call' = [Did(call, ops) EXCEPT
                                  !.path = generatedPreviewPath(call.output, item,
                                                                type, stdout),
                                  !.wrote = Join(call.output, name)]
                   /\ fs' = IF IndexOf(call.output, UserDataPath \o "/") = 0
                            THEN fs \cup {Join(call.output, name)}
                            ELSE fs
                   /\ UNCHANGED <<sides, result, calls, served>>
              ELSE /\ Return([Did(call, ops) EXCEPT !.path = None], NoImage, "undefined")
                   /\ fs' = fs
    /\ UNCHANGED <<repo, race, view, nreq, req, raw>>

\* generatePreview: the generated preview is read with getImage, outside the
\* try block.
GeneratePreviewImage(ok) ==
    /\ pc = "g_img"
    /\ LET ops == << Op("readFile", call.path) >>
       IN  /\ log' = log \o ops
           /\ IF ok /\ (call.path \in fs \/ call.path = call.wrote)
              THEN Return(Did(call, ops), Image(call.path, call.path), "generated")
              ELSE Throw(Did(call, ops))
    /\ UNCHANGED <<repo, race, view, nreq, req, raw, fs>>

Next ==
    \/ \E wd \in BOOLEAN, file \in FileChanges,
          commitish \in Commitishes \cup {"HEAD"} :
         Request(wd, file, commitish)
    \/ GitFail
    \/ \E output \in GitOutputs, error \in GitErrors : GitComplete(output, error)
    \/ \E ok \in BOOLEAN : ImageCurrent(ok)
    \/ \E ok \in BOOLEAN : ImagePrevious(ok)
    \/ \E ok \in BOOLEAN : OldResolve(ok)
    \/ OldDocumentExists
    \/ \E outcome \in {"document", "other", "failed"} : OldExport(outcome)
    \/ OldSketchExists
    \/ \E ok \in BOOLEAN : OldImport(ok)
    \/ OldPreviewExists
    \/ \E ok \in BOOLEAN : OldRead(ok)
    \/ \E ok \in BOOLEAN, name \in ToolNames : GeneratePreviewTool(ok, name)
    \/ \E ok \in BOOLEAN : GeneratePreviewImage(ok)

Spec == Init /\ [][Next]_vars

\* --------------------------------------------------------- ModifiedImageDiff
pipeline == <<pc, nreq, req, raw, sides, call, result, log, calls, fs, served>>

\* ImageDiffType, in the order of the tabs.
ImageDiffTypes == <<"TwoUp", "Swipe", "OnionSkin", "Difference">>

Max(a, b) == IF a >= b THEN a ELSE b
Min(a, b) == IF a <= b THEN a ELSE b

Digit(d) == SubSeq("0123456789", d + 1, d + 1)

\* RangeInputValue of an input rendered with max={2}.
RangeInputValue_Max2(requested) ==
    LET m == Max(0, Min(2 * ValueScale, requested))
        int == m \div ValueScale
        frac == m % ValueScale
        d1 == frac \div 100
        d2 == (frac \div 10) % 10
        d3 == frac % 10
    IN  IF frac = 0 THEN Digit(int)
        ELSE IF d3 # 0 THEN Digit(int) \o "." \o Digit(d1) \o Digit(d2) \o Digit(d3)
        ELSE IF d2 # 0 THEN Digit(int) \o "." \o Digit(d1) \o Digit(d2)
        ELSE Digit(int) \o "." \o Digit(d1)

\* The value string of an <input type="range" min={0} max={1} step={0.001}>
\* asked to take the position `requested` (in steps): the position is clamped
\* to [min, max] and written as a decimal number.
RangeInputValue(requested) ==
    LET m == Max(0, Min(ValueScale, requested))
        int == m \div ValueScale
        frac == m % ValueScale
        d1 == frac \div 100
        d2 == (frac \div 10) % 10
        d3 == frac % 10
    IN  IF frac = 0 THEN Digit(int)
        ELSE IF d3 # 0 THEN Digit(int) \o "." \o Digit(d1) \o Digit(d2) \o Digit(d3)
        ELSE IF d2 # 0 THEN Digit(int) \o "." \o Digit(d1) \o Digit(d2)
        ELSE Digit(int) \o "." \o Digit(d1)

DigitValue(c) == CHOOSE d \in 0..9 : Digit(d) = c

\* The digits s[i..] of a decimal fraction, in steps: the first digit counts
\* `weight` steps.
RECURSIVE FractionValue(_, _, _)
FractionValue(s, i, weight) ==
    IF i > Len(s) \/ weight = 0 THEN 0
    ELSE DigitValue(SubSeq(s, i, i)) * weight + FractionValue(s, i + 1, weight \div 10)

RECURSIVE IntegerValue(_, _)
IntegerValue(s, n) ==
    IF n = 0 THEN 0
    ELSE IntegerValue(s, n - 1) * 10 + DigitValue(SubSeq(s, n, n))

\* parseFloat of a decimal string, in steps.
parseFloat(s) ==
    LET neg == Len(s) > 0 /\ SubSeq(s, 1, 1) = "-"
        t == IF neg THEN SubSeq(s, 2, Len(s)) ELSE s
        dot == IndexOf(t, ".")
        int == IF dot = -1 THEN IntegerValue(t, Len(t)) ELSE IntegerValue(t, dot)
        frac == IF dot = -1 THEN 0 ELSE FractionValue(t, dot + 2, ValueScale \div 10)
        v == int * ValueScale + frac
    IN  IF neg THEN 0 - v ELSE v

\* The positions the user drags or keys the slider to, in steps; the ends of
\* the track are overshot.
SliderPositions == {0 - 500, 0, 1, 250, 990, ValueScale, ValueScale + 500}

\* naturalWidth / naturalHeight of a loaded image.
NaturalSizes == {0, 100, 240}

\* Widths the container element is laid out with.
ContainerWidths == {0, 200, 800}

Truthy(n) == n # Null /\ n # 0

\* getDimensions
getDimensions(naturalHeight, naturalWidth) ==
    LET heightRatio == 1
        widthRatio == 1
        divisor == IF widthRatio < heightRatio THEN Max(1, heightRatio)
                   ELSE Max(1, widthRatio)
    IN  [width |-> (IF Truthy(naturalWidth) THEN naturalWidth ELSE 0) \div divisor,
         height |-> (IF Truthy(naturalHeight) THEN naturalHeight ELSE 0) \div divisor]

\* getScaledDimensions computing the sizes as soon as one image has loaded.
getScaledDimensions_Either ==
    LET before == getDimensions(state.naturalHeightBefore, state.naturalWidthBefore)
        after == getDimensions(state.naturalHeightAfter, state.naturalWidthAfter)
        both == Truthy(state.naturalHeightBefore) \/ Truthy(state.naturalHeightAfter)
    IN  [height |-> IF both THEN Max(before.height, after.height) ELSE 0,
         width |-> IF both THEN Max(before.width, after.width) ELSE 0,
         heightBefore |-> IF both THEN before.height ELSE 0,
         widthBefore |-> IF both THEN before.width ELSE 0,
         heightAfter |-> IF both THEN after.height ELSE 0,
         widthAfter |-> IF both THEN after.width ELSE 0,
         widthContainer |-> container]

\* getScaledDimensions
getScaledDimensions ==
    LET before == getDimensions(state.naturalHeightBefore, state.naturalWidthBefore)
        after == getDimensions(state.naturalHeightAfter, state.naturalWidthAfter)
        both == Truthy(state.naturalHeightBefore) /\ Truthy(state.naturalHeightAfter)
    IN  [height |-> IF both THEN Max(before.height, after.height) ELSE 0,
         width |-> IF both THEN Max(before.width, after.width) ELSE 0,
         heightBefore |-> IF both THEN before.height ELSE 0,
         widthBefore |-> IF both THEN before.width ELSE 0,
         heightAfter |-> IF both THEN after.height ELSE 0,
         widthAfter |-> IF both THEN after.width ELSE 0,
         widthContainer |-> container]

\* render2Up
render2Up(height, width, widthContainer) ==
    [view |-> "two-up", height |-> height, width |-> width]

\* renderSwipe: the swiper is width * (1 - value) wide, here in 1/ValueScale
\* of a pixel; the range input shows the value.
renderSwipe(height, width, widthContainer) ==
    [view |-> "swipe", height |-> height, width |-> width,
     swiperWidth |-> width * (ValueScale - state.value),
     input |-> state.value]

\* renderFade: the after image has the value as opacity; the range input
\* shows the value.
renderFade(height, width, widthContainer) ==
    [view |-> "fade", height |-> height, width |-> width,
     opacity |-> state.value,
     input |-> state.value]

\* renderDifference
renderDifference(height, width, widthContainer) ==
    [view |-> "difference", height |-> height, width |-> width]

\* render showing the fade view for every mode but the first.
render_FadeUnlessTwoUp ==
    LET d == getScaledDimensions
    IN  (IF diffType = "TwoUp"
         THEN << render2Up(d.height, d.width, d.widthContainer) >> ELSE <<>>)
        \o (IF diffType = "Swipe"
            THEN << renderSwipe(d.height, d.width, d.widthContainer) >> ELSE <<>>)
        \o (IF diffType # "TwoUp"
            THEN << renderFade(d.height, d.width, d.widthContainer) >> ELSE <<>>)
        \o (IF diffType = "Difference"
            THEN << renderDifference(d.height, d.width, d.widthContainer) >> ELSE <<>>)

\* render: the views of the modes whose condition holds, in source order.
render ==
    LET d == getScaledDimensions
    IN  (IF diffType = "TwoUp"
         THEN << render2Up(d.height, d.width, d.widthContainer) >> ELSE <<>>)
        \o (IF diffType = "Swipe"
            THEN << renderSwipe(d.height, d.width, d.widthContainer) >> ELSE <<>>)
        \o (IF diffType = "OnionSkin"
            THEN << renderFade(d.height, d.width, d.widthContainer) >> ELSE <<>>)
        \o (IF diffType = "Difference"
            THEN << renderDifference(d.height, d.width, d.widthContainer) >> ELSE <<>>)

\* handleValueChange: the change event of the range input, which only the
\* swipe and fade views render.
handleValueChange(requested) ==
    /\ diffType \in {"Swipe", "OnionSkin"}
    /\ state' = [state EXCEPT !.value = parseFloat(RangeInputValue(requested))]
    /\ UNCHANGED <<repo, race, pipeline, diffType, container>>

\* handleImgLoadBefore
handleImgLoadBefore(naturalHeight, naturalWidth) ==
    /\ state' = [state EXCEPT !.naturalHeightBefore = naturalHeight,
                              !.naturalWidthBefore = naturalWidth]
    /\ UNCHANGED <<repo, race, pipeline, diffType, container>>

\* handleImgLoadAfter
handleImgLoadAfter(naturalHeight, naturalWidth) ==
    /\ state' = [state EXCEPT !.naturalHeightAfter = naturalHeight,
                              !.naturalWidthAfter = naturalWidth]
    /\ UNCHANGED <<repo, race, pipeline, diffType, container>>

\* onChangeDiffType: a tab is clicked and the parent passes the new diffType.
ChangeDiffType(index) ==
    /\ diffType' = ImageDiffTypes[index]
    /\ diffType' # diffType
    /\ UNCHANGED <<repo, race, pipeline, state, container>>

\* The container element is laid out with another width.
Resize(width) ==
    /\ container' = width
    /\ container' # container
    /\ UNCHANGED <<repo, race, pipeline, state, diffType>>

\* The component is unmounted and mounted again: the constructor runs.
Remount ==
    /\ state # InitialState
    /\ state' = InitialState
    /\ container' = 0
    /\ UNCHANGED <<repo, race, pipeline, diffType>>

NextView ==
    \/ \E requested \in SliderPositions : handleValueChange(requested)
    \/ \E h \in NaturalSizes, w \in NaturalSizes : handleImgLoadBefore(h, w)
    \/ \E h \in NaturalSizes, w \in NaturalSizes : handleImgLoadAfter(h, w)
    \/ \E index \in 1..Len(ImageDiffTypes) : ChangeDiffType(index)
    \/ \E width \in ContainerWidths : Resize(width)
    \/ Remount

SpecView == Init /\ [][NextView]_vars

\* ------------------------------------------- two concurrent preview requests
\* Two getOldSketchPreview calls for the same fragment at the same commit run
\* in the one event loop and interleave at their awaits.  The subprocesses
\* they await write to the cache while the other call runs.

\* The fragments the two calls are made for.
RaceFiles == {"d/document.json", "d/p1/page.json", "d/p1/a1/artboard.json",
              "d/p1/a1/l1.json"}

\* The files the tree export writes for the document: its document.json and
\* the file of the fragment.
DocumentTree(c) ==
    {Join(c.output, "document.json"),
     Join(storagePath(IF c.commitish = "HEAD" THEN HEADsha ELSE c.commitish),
          c.file)}

\* The files of the tree of the commit.
CommitTree == {Join(storagePath(HEADsha), f) : f \in RaceFiles}

Step(p, c, to, ops) ==
    previews' = [previews EXCEPT ![p] = [c EXCEPT !.pc = to, !.ops = c.ops \o ops]]

\* Both calls are made: getOldSketchPreview(sketchFile, repository, file,
\* commitish, type).  The name the export tool gives the PNG of the item is a
\* fact of the document.
RaceBegin(file, commitish, name) ==
    /\ \A p \in Procs : previews[p].pc = "idle"
    /\ name \in ExportedNames(previewItem(file, sketchFileType(file)),
                               sketchFileType(file))
    /\ previews' = [p \in Procs |->
                       [NoPreview EXCEPT !.pc = "o_head", !.file = file,
                                         !.commitish = commitish, !.name = name]]
    /\ UNCHANGED <<repo, pipeline, view, exports, built>>

\* 'HEAD' is resolved, storagePath and sketchStoragePath are computed.
RaceResolve(p) ==
    /\ previews[p].pc = "o_head"
    /\ LET c == previews[p]
           commitish == IF c.commitish = "HEAD" THEN HEADsha ELSE c.commitish
           dir == sketchStoragePath(findKactusFile(kactusFiles, c.file), commitish)
       IN  Step(p, [c EXCEPT !.output = dir], "o_doc",
                IF c.commitish = "HEAD" THEN <<"getHEADsha">> ELSE <<>>)
    /\ UNCHANGED <<repo, pipeline, view, exports, built>>

\* fileExists(<sketchStoragePath>/document.json): the tree is taken for
\* exported when the file is there.
RaceDocumentExists(p) ==
    /\ previews[p].pc = "o_doc"
    /\ LET c == previews[p]
           alreadyExported == Join(c.output, "document.json") \in fs
       IN  Step(p, [c EXCEPT !.partial = c.partial
                                \/ (alreadyExported /\ ~(DocumentTree(c) \subseteq fs))],
                IF alreadyExported THEN "o_sk" ELSE "o_export", <<"exists">>)
    /\ UNCHANGED <<repo, pipeline, view, exports, built>>

\* mkdirP, then exportTreeAtCommit is spawned and awaited.
RaceExport(p) ==
    /\ previews[p].pc = "o_export"
    /\ Step(p, previews[p], "o_exporting", <<"mkdirP", "exportTreeAtCommit">>)
    /\ exports' = [exports EXCEPT ![p] = DocumentTree(previews[p])]
    /\ UNCHANGED <<repo, pipeline, view, built>>

\* The export writes one more file of the tree.
RaceExportWrite(p, f) ==
    /\ previews[p].pc = "o_exporting"
    /\ f \in exports[p]
    /\ fs' = fs \cup {f}
    /\ exports' = [exports EXCEPT ![p] = @ \ {f}]
    /\ UNCHANGED <<repo, pc, nreq, req, raw, sides, call, result, log, calls,
                   served, view, previews, built>>

\* The export has written the tree and exits: the await returns.
RaceExportDone(p) ==
    /\ previews[p].pc = "o_exporting"
    /\ exports[p] = {}
    /\ Step(p, previews[p], "o_sk", <<>>)
    /\ UNCHANGED <<repo, pipeline, view, exports, built>>

\* fileExists(<sketchStoragePath>.sketch)
RaceSketchExists(p) ==
    /\ previews[p].pc = "o_sk"
    /\ Step(p, previews[p],
            IF (previews[p].output \o ".sketch") \in fs THEN "o_png" ELSE "o_import",
            <<"exists">>)
    /\ UNCHANGED <<repo, pipeline, view, exports, built>>

\* importFolder builds the .sketch file from what the directory holds.
RaceImport(p) ==
    /\ previews[p].pc = "o_import"
    /\ Step(p, previews[p], "o_png", <<"importFolder">>)
    /\ fs' = fs \cup {previews[p].output \o ".sketch"}
    /\ built' = DocumentTree(previews[p]) \cap fs
    /\ UNCHANGED <<repo, pc, nreq, req, raw, sides, call, result, log, calls,
                   served, view, exports>>

\* The output path of the fragment kind is computed and looked up.
RacePreviewExists(p) ==
    /\ previews[p].pc = "o_png"
    /\ LET c == previews[p]
           path == cachedPreviewPath(c.output, c.file, sketchFileType(c.file))
       IN  Step(p, [c EXCEPT !.path = path],
                IF path \in fs THEN "o_read" ELSE "g_tool", <<"exists">>)
    /\ UNCHANGED <<repo, pipeline, view, exports, built>>

\* The cached preview is read and returned.
RaceRead(p) ==
    /\ previews[p].pc = "o_read"
    /\ Step(p, [previews[p] EXCEPT !.result = previews[p].path], "done",
            <<"readFile">>)
    /\ UNCHANGED <<repo, pipeline, view, exports, built>>

\* generatePreview: the export tool runs on the .sketch file.  It exports
\* the item when the file was built with it; when it was not, the tool
\* fails or exports nothing.
RaceTool(p, ok) ==
    /\ previews[p].pc = "g_tool"
    /\ LET c == previews[p]
           kind == sketchFileType(c.file)
           item == previewItem(c.file, kind)
           hasItem == Join(storagePath(IF c.commitish = "HEAD" THEN HEADsha
                                       ELSE c.commitish), c.file) \in built
           path == generatedPreviewPath(c.output, item, kind,
                                        "Exported " \o c.name \o "\n")
       IN  /\ hasItem => ok
           /\ fs' = IF hasItem THEN fs \cup {Join(c.output, c.name)} ELSE fs
           /\ IF ok
              THEN Step(p, [c EXCEPT !.path = path], "g_img", <<"sketchtool">>)
              ELSE Step(p, [c EXCEPT !.path = None], "done", <<"sketchtool">>)
    /\ UNCHANGED <<repo, pc, nreq, req, raw, sides, call, result, log, calls,
                   served, view, exports, built>>

\* generatePreview: the generated preview is read with getImage.
RaceImage(p) ==
    /\ previews[p].pc = "g_img"
    /\ LET c == previews[p]
       IN  Step(p, [c EXCEPT !.result = IF c.path \in fs THEN c.path ELSE None],
                "done", <<"readFile">>)
    /\ UNCHANGED <<repo, pipeline, view, exports, built>>

NextRace ==
    \/ \E file \in RaceFiles, commitish \in Commitishes \cup {"HEAD"},
          name \in ToolNames : RaceBegin(file, commitish, name)
    \/ \E p \in Procs : RaceResolve(p)
    \/ \E p \in Procs : RaceDocumentExists(p)
    \/ \E p \in Procs : RaceExport(p)
    \/ \E p \in Procs, f \in CommitTree : RaceExportWrite(p, f)
    \/ \E p \in Procs : RaceExportDone(p)
    \/ \E p \in Procs : RaceSketchExists(p)
    \/ \E p \in Procs : RaceImport(p)
    \/ \E p \in Procs : RacePreviewExists(p)
    \/ \E p \in Procs : RaceRead(p)
    \/ \E p \in Procs, ok \in BOOLEAN : RaceTool(p, ok)
    \/ \E p \in Procs : RaceImage(p)

SpecRace == Init /\ [][NextRace]_vars

\* ------------------------------------------------------- the repository view
\* RepositoryView.renderContent and the render of the Changes component it
\* mounts, as functions of the repository state handed down as props.

\* A string that is neither null nor empty is truthy.
TruthyId(id) == id # NullId /\ id # ""

\* Array.prototype.find on the id: the first element with the id, else the
\* value for nothing found.
FindWithID(list, id, nothing) ==
    LET hits == {i \in 1..Len(list) : list[i].id = id}
    IN  IF hits = {} THEN nothing
        ELSE list[CHOOSE i \in hits : \A j \in hits : i <= j]

\* workingDirectory.findFileWithID
findFileWithID(files, id) == FindWithID(files, id, NoFileChange)

\* Changes.render: the design-document file view, the changed-file diff, or
\* nothing.
ChangesRender(file, diff, sketchFile) ==
    IF sketchFile # NoFile THEN "SketchFileView"
    ELSE IF file # NoFileChange /\ diff # NoDiff THEN "changed-file"
    ELSE "null"

\* renderContent mounting Changes whenever the working directory has changes.
renderContent_OnlyChecksFiles(p) ==
    IF p.selectedSection = "Changes"
    THEN LET selectedFile == IF TruthyId(p.selectedFileID)
                             THEN findFileWithID(p.files, p.selectedFileID)
                             ELSE NoFileChange
             selectedSketchFile ==
                 IF TruthyId(p.selectedSketchFileID)
                 THEN FindWithID(p.kactusFiles, p.selectedSketchFileID, NoFile)
                 ELSE NoFile
         IN  IF selectedSketchFile = NoFile /\ Len(p.files) = 0
             THEN [component |-> "NoChanges", rendered |-> "NoChanges"]
             ELSE [component |-> "Changes",
                   rendered |-> ChangesRender(selectedFile, p.diff,
                                              selectedSketchFile)]
    ELSE [component |-> "History", rendered |-> "History"]

\* renderContent: the element returned, with what its component renders.
renderContent(p) ==
    IF p.selectedSection = "Changes"
    THEN LET selectedFile == IF TruthyId(p.selectedFileID)
                             THEN findFileWithID(p.files, p.selectedFileID)
                             ELSE NoFileChange
             selectedSketchFile ==
                 IF TruthyId(p.selectedSketchFileID)
                 THEN FindWithID(p.kactusFiles, p.selectedSketchFileID, NoFile)
                 ELSE NoFile
         IN  IF selectedSketchFile = NoFile
                /\ (Len(p.files) = 0 \/ selectedFile = NoFileChange
                                      \/ p.diff = NoDiff)
             THEN [component |-> "NoChanges", rendered |-> "NoChanges"]
             ELSE [component |-> "Changes",
                   rendered |-> ChangesRender(selectedFile, p.diff,
                                              selectedSketchFile)]
    ELSE [component |-> "History", rendered |-> "History"]

\* The repository states handed down.
Sections == {"Changes", "History"}
WorkingDirectories ==
    { <<>>, << [id |-> "f1"] >>, << [id |-> "f1"], [id |-> "f2"] >> }
FileIDs == {NullId, "", "f1", "f2", "f9"}
Diffs == {NoDiff, [kind |-> "Text"], [kind |-> "Image"]}
KactusStates == { <<>>, kactusFiles }
SketchFileIDs == {NullId, "", "d", "x"}

\* Each change of the repository state renders the view again.

\* The section is switched (the tab bar of the sidebar).
SelectSection(section) ==
    /\ section # props.selectedSection
    /\ props' = [props EXCEPT !.selectedSection = section]
    /\ content' = renderContent(props')
    /\ UNCHANGED <<pipeline, view, race>>

\* The status of the working directory is refreshed.
StatusChanged(files) ==
    /\ files # props.files
    /\ props' = [props EXCEPT !.files = files]
    /\ content' = renderContent(props')
    /\ UNCHANGED <<pipeline, view, race>>

\* A changed file is selected, or the selection is cleared.
SelectFile(id) ==
    /\ id # props.selectedFileID
    /\ props' = [props EXCEPT !.selectedFileID = id]
    /\ content' = renderContent(props')
    /\ UNCHANGED <<pipeline, view, race>>

\* The diff of the selected file is loaded, or dropped.
DiffChanged(diff) ==
    /\ diff # props.diff
    /\ props' = [props EXCEPT !.diff = diff]
    /\ content' = renderContent(props')
    /\ UNCHANGED <<pipeline, view, race>>

\* The design documents of the repository are found again.
KactusChanged(files) ==
    /\ files # props.kactusFiles
    /\ props' = [props EXCEPT !.kactusFiles = files]
    /\ content' = renderContent(props')
    /\ UNCHANGED <<pipeline, view, race>>

\* A design-document file is selected, or the selection is cleared.
SelectSketchFile(id) ==
    /\ id # props.selectedSketchFileID
    /\ props' = [props EXCEPT !.selectedSketchFileID = id]
    /\ content' = renderContent(props')
    /\ UNCHANGED <<pipeline, view, race>>

NextRepo ==
    \/ \E section \in Sections : SelectSection(section)
    \/ \E files \in WorkingDirectories : StatusChanged(files)
    \/ \E id \in FileIDs : SelectFile(id)
    \/ \E diff \in Diffs : DiffChanged(diff)
    \/ \E files \in KactusStates : KactusChanged(files)
    \/ \E id \in SketchFileIDs : SelectSketchFile(id)

SpecRepo == Init /\ [][NextRepo]_vars

\* ================================================================== claims
HasOp(l, ops) == \E i \in 1..Len(l) : l[i].op \in ops

OpsIn(l, ops) == SelectSeq(l, LAMBDA o : o.op \in ops)

\* The request returned a diff with a before and an after side.
ReturnedSides == pc = "done" /\ result.kind \in {"Image", "Sketch"}

\* The preview call of a side ended with a preview.
PreviewGenerated(side) ==
    \E i \in 1..Len(calls) :
        calls[i].side = side /\ calls[i].how \in {"hit", "generated"}

C2_Original ==
    (ReturnedSides /\ req.file.status = "Deleted")
        => (result.current = NoImage /\ result.previous # NoImage)

\* C2, amended: for a file with status deleted the returned diff has no
\* current side; an Image diff has the previous side, and a design-document
\* diff has the previous preview exactly when its generation succeeded.
C2_DeletedSides ==
    (ReturnedSides /\ req.file.status = "Deleted")
        => /\ result.current = NoImage
           /\ result.kind = "Image" => result.previous # NoImage
           /\ result.kind = "Sketch" =>
                  (result.previous # NoImage <=> PreviewGenerated("previous"))

C2_Witness ==
    /\ ReturnedSides
    /\ req.file.status = "Deleted"
    /\ result.kind = "Sketch"
    /\ result.previous # NoImage
    /\ result.current = NoImage

\* C3: when git's output is maximumDiffStringSize long or longer the request
\* returns TooLarge with that length, and nothing but the git invocation
\* happened: no parse, no convertDiff, no read, no preview step.
C3_TooLarge ==
    raw.length >= maximumDiffStringSize
        => /\ pc = "done"
           /\ result = [kind |-> "TooLarge", length |-> raw.length]
           /\ Len(log) = 1 /\ log[1].op = "git"
           /\ calls = <<>>

C3_Witness ==
    /\ pc = "done"
    /\ result.kind = "TooLarge"
    /\ raw.length = maximumDiffStringSize
    /\ req.file.path \in SketchPaths

\* The getOldSketchPreview calls of the request: those finished and the one
\* in progress.
OldCalls ==
    {calls[i] : i \in {j \in 1..Len(calls) : calls[j].fn = "old"}}
        \cup (IF call.fn = "old" THEN {call} ELSE {})

GenerationSteps == {"exportTreeAtCommit", "importFolder", "sketchtool"}

StepNames(ops) == [i \in 1..Len(OpsIn(ops, GenerationSteps)) |->
                      OpsIn(ops, GenerationSteps)[i].op]

\* C4: a getOldSketchPreview call that directly follows a successful call
\* for the same (commit, file, kind) runs neither the tree export nor the
\* import nor the export tool, and returns the path the first call returned.
C4_CacheHit ==
    \A c \in OldCalls :
        c.prior # None
            => /\ ~HasOp(c.ops, GenerationSteps)
               /\ c.how \in {"hit", "generated"} => c.path = c.prior

HasSuffix(s, t) ==
    Len(s) >= Len(t) /\ SubSeq(s, Len(s) - Len(t) + 1, Len(s)) = t

HasPrefix(s, t) == Len(s) >= Len(t) /\ SubSeq(s, 1, Len(t)) = t

\* convertDiff ran for the request.
Classified == HasOp(log, {"convertDiff"})

Fetches == OpsIn(log, {"readFile", "getBlobContents"})

HasCurrentSide == req.file.status \notin {"Deleted", "Conflicted"}
HasPreviousSide == req.file.status \notin {"New", "Conflicted"}

\* C6: a binary diff of a path ending in .png, .jpg, .jpeg or .gif gives the
\* Image variant, of any other path the Binary variant; Binary is returned
\* with nothing read, and for Image exactly the sides the status has are
\* read and carried.
C6_BinaryClassification ==
    (Classified /\ raw.isBinary)
        => IF \E e \in {".png", ".jpg", ".jpeg", ".gif"} : HasSuffix(req.file.path, e)
           THEN /\ pc = "done" => result.kind \in {"Image", "Rejected"}
                /\ Len(Fetches) <= (IF HasCurrentSide THEN 1 ELSE 0)
                                   + (IF HasPreviousSide THEN 1 ELSE 0)
                /\ (pc = "done" /\ result.kind = "Image")
                       => /\ result.current # NoImage <=> HasCurrentSide
                          /\ result.previous # NoImage <=> HasPreviousSide
                          /\ Len(Fetches) = (IF HasCurrentSide THEN 1 ELSE 0)
                                            + (IF HasPreviousSide THEN 1 ELSE 0)
           ELSE /\ pc = "done"
                /\ result = [kind |-> "Binary"]
                /\ Fetches = <<>>
                /\ calls = <<>>

C6_Witness ==
    /\ pc = "done"
    /\ req.file = [path |-> "icon.png", status |-> "New", oldPath |-> ""]
    /\ raw.isBinary
    /\ result.kind = "Image"
    /\ result.previous = NoImage
    /\ result.current # NoImage
    /\ Len(Fetches) = 1

\* The path lies under the root of a known design document: it starts with
\* the id of one and a separator.
UnderFragmentRoot(path) ==
    \E i \in 1..Len(kactusFiles) : HasPrefix(path, kactusFiles[i].id \o "/")

\* C7: a returned diff is the design-document variant exactly when the raw
\* diff is not binary and the path lies under a fragment root; it carries
\* the text and hunks of the raw diff, the matched design-document file and
\* the previews that were generated.
C7_DesignDocument ==
    (pc = "done" /\ Classified /\ result # Rejected)
        => /\ result.kind = "Sketch"
                <=> (~raw.isBinary /\ UnderFragmentRoot(req.file.path))
           /\ result.kind = "Sketch"
                => /\ result.text = raw.contents
                   /\ result.hunks = raw.hunks
                   /\ HasPrefix(req.file.path, result.sketchFile.id \o "/")
                   /\ result.current # NoImage <=> PreviewGenerated("current")
                   /\ result.previous # NoImage <=> PreviewGenerated("previous")

C7_Witness ==
    /\ pc = "done"
    /\ result.kind = "Sketch"
    /\ result.current # NoImage
    /\ result.previous # NoImage
    /\ result.hunks # <<>>

\* The line-endings change git's stderr announces.
AnnouncedLineEndingsChange ==
    IF raw.error = "hint: warning: CRLF will be replaced by LF in f"
    THEN [from |-> "CRLF", to |-> "LF"]
    ELSE NoLineEndingsChange

\* C8: a returned diff is the Text variant exactly when the raw diff is not
\* binary and the path lies under no fragment root; it carries the text and
\* hunks of the raw diff and the line-endings change found on the stderr
\* that was read, and nothing is read or generated for it.
C8_Text ==
    (pc = "done" /\ Classified /\ result # Rejected)
        => /\ result.kind = "Text"
                <=> (~raw.isBinary /\ ~UnderFragmentRoot(req.file.path))
           /\ result.kind = "Text"
                => /\ result.text = raw.contents
                   /\ result.hunks = raw.hunks
                   /\ result.lineEndingsChange = AnnouncedLineEndingsChange
                   /\ [i \in 1..Len(log) |-> log[i].op] = <<"git", "parse", "convertDiff">>
                   /\ calls = <<>>

C8_Witness ==
    /\ pc = "done"
    /\ result.kind = "Text"
    /\ result.lineEndingsChange = [from |-> "CRLF", to |-> "LF"]
    /\ result.hunks # <<>>

\* The commit a getOldSketchPreview call of the request is for.
ExpectedCommit(c) ==
    IF req.wd THEN HEADsha
    ELSE IF c.side = "current" THEN req.commitish
    ELSE req.commitish \o "^"

IsPrefixOf(a, b) == Len(a) <= Len(b) /\ SubSeq(b, 1, Len(a)) = a

\* C9: a getOldSketchPreview call that starts with nothing cached for the
\* fragment's document at the commit runs the tree export, then the import,
\* then the export tool, each at most once and none before the one before it
\* completed; a call that generates a preview ran all three, and the preview
\* is a PNG under previews/<repository id>/<commit>/<document id>/ of the
\* user-data directory.
C9_EmptyCacheOrder ==
    \A c \in OldCalls :
        c.empty
            => /\ IsPrefixOf(StepNames(c.ops),
                             <<"exportTreeAtCommit", "importFolder", "sketchtool">>)
               /\ c.how # "hit"
               /\ c.how \in {"generated", "undefined"}
                      => StepNames(c.ops) =
                             <<"exportTreeAtCommit", "importFolder", "sketchtool">>
               /\ c.how = "generated"
                      => /\ HasPrefix(c.path, UserDataPath \o "/previews/"
                                        \o RepositoryId \o "/" \o ExpectedCommit(c)
                                        \o "/" \o kactusFile.id \o "/")
                         /\ HasSuffix(c.path, ".png")
                         /\ c.path \in fs

C9_Witness ==
    \E c \in OldCalls :
        /\ c.empty
        /\ c.how = "generated"
        /\ c.path = "/u/previews/1/c1/d/a1.png"

\* C10: a request that reached getSketchDiff returns the design-document
\* diff whatever fails in the generation of a preview.
C10_PreviewFailureCaught ==
    (pc = "done" /\ Classified /\ ~raw.isBinary /\ UnderFragmentRoot(req.file.path))
        => result.kind = "Sketch"

\* C5: the slider value lies in [0, 1]; the swiper of the swipe view is
\* width * (1 - value) wide and the after image of the fade view has the
\* value as opacity; a greater value never widens the swiper nor lowers the
\* opacity while the shared width stays.
C5_SliderValue ==
    /\ [](/\ state.value \in 0..ValueScale
          /\ LET d == getScaledDimensions
             IN  /\ renderSwipe(d.height, d.width, d.widthContainer).swiperWidth
                        = d.width * ValueScale - d.width * state.value
                 /\ renderSwipe(d.height, d.width, d.widthContainer).swiperWidth
                        \in 0..(d.width * ValueScale)
                 /\ renderFade(d.height, d.width, d.widthContainer).opacity
                        = state.value)
    /\ [][(state'.value >= state.value
              /\ getScaledDimensions'.width = getScaledDimensions.width)
            => LET d == getScaledDimensions
               IN  /\ renderSwipe(d.height, d.width, d.widthContainer)'.swiperWidth
                         <= renderSwipe(d.height, d.width, d.widthContainer).swiperWidth
                   /\ renderFade(d.height, d.width, d.widthContainer)'.opacity
                         >= renderFade(d.height, d.width, d.widthContainer).opacity]_vars

C5_Witness ==
    /\ diffType = "Swipe"
    /\ state.value = 250
    /\ getScaledDimensions.width = 240

\* Every preview call of the request: those finished and the one in progress.
AllCalls ==
    {calls[i] : i \in 1..Len(calls)} \cup (IF call.fn # None THEN {call} ELSE {})

\* The subprocesses a request runs: git for the diff, git for the tree
\* export, the export tool.
Subprocesses == {"git", "exportTreeAtCommit", "sketchtool"}

\* C11: a request spawns git for the diff once; a preview call runs the tree
\* export and the export tool at most once each and no export-tool
\* invocation is repeated within the request; a wrapper whose tool failed
\* is rejected and not resolved (the call ends undefined, without a path and
\* with the tool as its last operation), a wrapper whose tool succeeded is
\* resolved with a path; a failing git rejects the request and nothing is
\* parsed, classified or generated.
C11_SingleAttempt ==
    /\ nreq > 0 => /\ log[1].op = "git"
                   /\ Len(OpsIn(log, {"git"})) = 1
    /\ \A c \in AllCalls :
           \A p \in Subprocesses : Len(OpsIn(c.ops, {p})) <= 1
    /\ \A i, j \in 1..Len(log) :
           (i # j /\ log[i].op = "sketchtool") => log[i] # log[j]
    /\ \A i \in 1..Len(calls) :
           LET c == calls[i]
           IN  /\ c.how = "undefined"
                      => /\ c.path = None
                         /\ c.ops[Len(c.ops)].op = "sketchtool"
               /\ c.how = "generated"
                      => /\ c.path # None
                         /\ Len(OpsIn(c.ops, {"sketchtool"})) = 1
               /\ c.how = "threw" /\ HasOp(c.ops, {"exportTreeAtCommit"})
                                  /\ ~HasOp(c.ops, {"importFolder", "sketchtool"})
                      => c.path = None
    /\ (pc = "done" /\ raw = NoRaw)
           => /\ result = Rejected
              /\ log = << Op("git", IF req.wd THEN "diff" ELSE "log") >>
              /\ calls = <<>>

C11_Witness ==
    /\ pc = "done"
    /\ result.kind = "Sketch"
    /\ \E i \in 1..Len(calls) :
           /\ calls[i].how = "undefined"
           /\ calls[i].fn = "old"
           /\ Len(OpsIn(calls[i].ops, Subprocesses)) = 2

\* A commitish that names its commit through a reference or a revision
\* expression rather than by its identifier.
Symbolic(commitish) == commitish = "HEAD" \/ IndexOf(commitish, "^") # -1

\* The cache directory getOldSketchPreview computed for a call, once it did.
CacheDirectories == {c.output : c \in {o \in OldCalls : o.output # ""}}

\* C12: every cache directory a getOldSketchPreview call computed is keyed
\* by a commit identifier, never by a symbolic reference: it is the
\* directory of the document under previews/<repository id>/<commit id>,
\* and everything in the cache lies under such a directory.
C12_ConcreteCacheKey ==
    /\ \A c \in OldCalls :
           c.output # ""
               => /\ ~Symbolic(c.commitish)
                  /\ c.output = sketchStoragePath(kactusFile, c.commitish)
    /\ \A f \in fs : IndexOf(f, "^") = -1 /\ IndexOf(f, "HEAD") = -1

\* The operations a step of the request in progress adds to its log.
NewOps ==
    IF pc \in {"idle", "done"} THEN <<>>
    ELSE SubSeq(log', Len(log) + 1, Len(log'))

\* A step of getOldSketchPreview does what the file it looked for, present
\* or absent, calls for.
RegeneratesIffAbsent ==
    /\ pc = "o_doc"
        => /\ pc' = "o_export" <=> Join(call.output, "document.json") \notin fs
           /\ pc' = "o_sk" <=> Join(call.output, "document.json") \in fs
    /\ pc = "o_sk"
        => /\ pc' = "o_import" <=> (call.output \o ".sketch") \notin fs
           /\ pc' = "o_png" <=> (call.output \o ".sketch") \in fs
    /\ pc = "o_png"
        => /\ pc' = "g_tool" <=> call'.path \notin fs
           /\ pc' = "o_read" <=> call'.path \in fs
           /\ call'.path = cachedPreviewPath(call.output, call.file, type)
    /\ HasOp(NewOps, {"exportTreeAtCommit"}) <=> pc = "o_export"
    /\ HasOp(NewOps, {"importFolder"}) <=> pc = "o_import"
    /\ HasOp(NewOps, {"sketchtool"}) <=> pc = "g_tool"
    /\ pc = "o_read"
        => /\ NewOps = << Op("readFile", call.path) >>
           /\ fs' = fs
           /\ sides'[call.side] \in {NoImage, Image(call.path, call.path)}

\* C13: in getOldSketchPreview the tree export runs exactly when
\* document.json is absent at the time of the check, the import exactly when
\* the .sketch file is absent, the export tool exactly when the output PNG
\* is absent; an existing PNG is read and nothing else is invoked, and a
\* call that returned the cached PNG ran none of the three.
C13_RegenerateIffAbsent ==
    /\ [][RegeneratesIffAbsent]_vars
    /\ [](\A c \in OldCalls :
             c.how = "hit" => (~HasOp(c.ops, GenerationSteps \cup {"mkdirP"})
                                 /\ c.path \in fs))

C13_Witness ==
    /\ pc = "done"
    /\ Len(calls) = 2
    /\ calls[1].how = "generated"
    /\ calls[2].how = "hit"
    /\ calls[2].path = "/u/previews/1/c1/d/document.png"

\* Both racing calls have returned.
RaceOver == \A p \in Procs : previews[p].pc = "done"

\* The cache as one call alone leaves it: the exported tree, the .sketch
\* file built from the whole of it, the PNG of the fragment.
AfterSingleRequest(c) ==
    /\ fs = DocumentTree(c) \cup {c.output \o ".sketch", Join(c.output, c.name)}
    /\ built = DocumentTree(c)

\* C14: two interleaved getOldSketchPreview calls for the same fragment at
\* the same commit never take a partially generated entry for a valid one,
\* and when both have returned they returned the same preview path and the
\* cache is as a single call leaves it.
C14_IdempotentRace ==
    /\ \A p \in Procs : ~previews[p].partial
    /\ RaceOver
           => /\ previews[1].result = previews[2].result
              /\ previews[1].result # None
              /\ AfterSingleRequest(previews[1])

\* The view of each presentation mode.
ModeView ==
    [m \in {"TwoUp", "Swipe", "OnionSkin", "Difference"} |->
        CASE m = "TwoUp" -> "two-up"
          [] m = "Swipe" -> "swipe"
          [] m = "OnionSkin" -> "fade"
          [] m = "Difference" -> "difference"]

\* C15: whatever the slider value and the measured sizes, render shows
\* exactly one view, the one of the selected mode.
C15_OneView ==
    /\ diffType \in DOMAIN ModeView
    /\ Len(render) = 1
    /\ render[1].view = ModeView[diffType]

C15_Witness ==
    /\ diffType = "Difference"
    /\ state.value = 250
    /\ state.naturalHeightBefore = 100
    /\ state.naturalHeightAfter = 240
    /\ container = 200

\* The request is for a conflicted file of the working directory.
Conflicted == nreq > 0 /\ req.wd /\ req.file.status = "Conflicted"

\* C16: for a conflicted file of the working directory nothing is fetched
\* and no preview call is made at any point of the request, and the Image
\* or design-document diff returned has neither a previous nor a current
\* side.
C16_ConflictedNoSides ==
    Conflicted
        => /\ call = NoCall /\ calls = <<>>
           /\ \A i \in 1..Len(log) : log[i].op \in {"git", "parse", "convertDiff"}
           /\ pc \in {"git", "done"}
           /\ (pc = "done" /\ Classified)
                  => /\ result.kind \in {"Image", "Sketch", "Binary", "Text"}
                     /\ result.kind = "Image"
                            <=> (raw.isBinary /\ Extname(req.file.path)
                                                    \in imageFileExtensions)
                     /\ result.kind = "Sketch"
                            <=> (~raw.isBinary /\ UnderFragmentRoot(req.file.path))
                     /\ result.kind \in {"Image", "Sketch"}
                            => /\ result.previous = NoImage
                               /\ result.current = NoImage

C16_Witness ==
    /\ Conflicted
    /\ pc = "done"
    /\ result.kind = "Sketch"
    /\ result.type = "Artboard"
    /\ result.hunks # <<>>

\* Where the previous side of the request is to be read: the old path of a
\* renamed file, else the file's own path; at HEAD for the working
\* directory, else at the parent of the commit.
PreviousPath == IF req.file.oldPath = "" THEN req.file.path ELSE req.file.oldPath
PreviousCommit == IF req.wd THEN "HEAD" ELSE req.commitish \o "^"

\* The blob reads of the request, in order.
BlobReads == OpsIn(log, {"getBlobContents"})

\* C17: every read of the previous side is of the old path of a renamed
\* file (of the file's own path when no old path is set), at HEAD in the
\* working directory and at the parent of the commit otherwise; every read
\* of the current side is of the file's own path.
C17_RenamedSides ==
    /\ \A c \in AllCalls :
           /\ c.side = "previous"
                  => /\ c.fn = "old"
                     /\ c.file = PreviousPath
                     /\ c.commitish \in
                            {PreviousCommit,
                             IF req.wd THEN HEADsha ELSE PreviousCommit}
           /\ c.side = "current"
                  => /\ c.file = req.file.path
                     /\ c.fn = IF req.wd THEN "wd" ELSE "old"
                     /\ c.fn = "old" => c.commitish = req.commitish
    /\ \A i \in 1..Len(BlobReads) :
           BlobReads[i].arg \in
               {PreviousCommit \o ":" \o PreviousPath}
               \cup (IF req.wd \/ i > 1 THEN {}
                     ELSE {req.commitish \o ":" \o req.file.path})
    /\ (pc = "done" /\ result.kind = "Image")
           => /\ result.previous # NoImage
                     => result.previous.contents
                            = PreviousCommit \o ":" \o PreviousPath
              /\ result.current # NoImage
                     => result.current.contents
                            = IF req.wd THEN Join(RepositoryPath, req.file.path)
                              ELSE req.commitish \o ":" \o req.file.path

C17_Witness ==
    /\ pc = "done"
    /\ result.kind = "Image"
    /\ req.file = [path |-> "icon.png", status |-> "Renamed", oldPath |-> "old.txt"]
    /\ result.previous.contents = "c1^:old.txt"
    /\ result.current.contents = "c1:icon.png"

\* Both images have reported a natural height that is not zero.
BothLoaded ==
    /\ state.naturalHeightBefore \notin {Null, 0}
    /\ state.naturalHeightAfter \notin {Null, 0}

ClaimedPreviewPath(dir, file, kind) ==
    IF kind = "Document" THEN Join(dir, "document.png")
    ELSE IF kind \in {"Page", "Artboard", "ShapeGroup", "Group"}
    THEN Join(dir, Basename(Dirname(file)) \o ".png")
    ELSE Join(dir, Replace(Basename(file), ".json", "") \o ".png")

\* C19: in a getOldSketchPreview call the path the wrapper of the export
\* tool reported is the path that was looked up in the cache, which is the
\* path the claim gives for the fragment kind.
C19_LookupIsReportedPath ==
    \A c \in OldCalls :
        /\ HasOp(c.ops, {"sketchtool"}) /\ c.path # None
               => c.path = cachedPreviewPath(c.output, c.file, type)
        /\ c.path # None => c.path = ClaimedPreviewPath(c.output, c.file, type)

\* The getWorkingDirectorySketchPreview calls of the request.
WorkingDirectoryCalls == {c \in AllCalls : c.fn = "wd"}

\* The request asks for the current side of a fragment in the working
\* directory.
WantsWorkingDirectoryPreview ==
    /\ Classified /\ ~raw.isBinary /\ UnderFragmentRoot(req.file.path)
    /\ req.wd /\ req.file.status \notin {"Deleted", "Conflicted"}

\* C20: a working-directory request for a fragment that has a current side
\* always makes a getWorkingDirectorySketchPreview call first; such a call
\* looks nothing up, runs the export tool on the .sketch file of the working
\* directory with the output directory <temp>/kactus/<repository id>/
\* <document id>, never ends as a cache hit, touches no path under the
\* user-data directory and leaves the preview cache as it is.
C20_WorkingDirectoryNotCached ==
    /\ [](/\ WantsWorkingDirectoryPreview
               => /\ AllCalls # {}
                  /\ \E c \in WorkingDirectoryCalls :
                         c = (IF calls # <<>> THEN calls[1] ELSE call)
           /\ \A c \in WorkingDirectoryCalls :
                  /\ req.wd /\ c.side = "current"
                  /\ c.output = TempPath \o "/kactus/" \o RepositoryId \o "/"
                                    \o kactusFile.id
                  /\ c.sketch = Join(RepositoryPath, kactusFile.id) \o ".sketch"
                  /\ c.how \in {None, "generated", "undefined", "threw"}
                  /\ c.how # None
                         => /\ c.ops # <<>>
                            /\ c.ops[1].op = "sketchtool"
                            /\ HasPrefix(c.ops[1].arg, c.sketch \o ":")
                            /\ HasSuffix(c.ops[1].arg, ":" \o c.output)
                  /\ \A i \in 1..Len(c.ops) :
                         /\ c.ops[i].op \in {"sketchtool", "readFile"}
                         /\ IndexOf(c.ops[i].arg, UserDataPath \o "/") = -1
                  /\ c.path # None => HasPrefix(c.path, c.output \o "/"))
    /\ [][call.fn = "wd" => fs' = fs]_vars

C20_Witness ==
    /\ pc = "done"
    /\ result.kind = "Sketch"
    /\ Len(calls) = 2
    /\ calls[1].fn = "wd"
    /\ calls[1].how = "generated"
    /\ calls[1].path = "/t/kactus/1/d/a1.png"
    /\ calls[2].how = "hit"

\* The media types of images.
ImageMediaTypes == {"image/png", "image/jpg", "image/gif"}

\* C21: each side an Image diff carries has an image media type, never
\* text/plain, whatever the status and the old path of the file.
C21_ImageMediaType ==
    (pc = "done" /\ result.kind = "Image")
        => /\ result.current # NoImage
                  => result.current.mediaType \in ImageMediaTypes
           /\ result.previous # NoImage
                  => result.previous.mediaType \in ImageMediaTypes

\* The values renderContent works with, read off the props.
SelectedFile ==
    IF \E i \in 1..Len(props.files) : props.files[i].id = props.selectedFileID
    THEN props.selectedFileID ELSE NullId
SelectedSketchFile ==
    IF \E i \in 1..Len(props.kactusFiles) :
           props.kactusFiles[i].id = props.selectedSketchFileID
    THEN props.selectedSketchFileID ELSE NullId

\* C22: in the Changes section the NoChanges view is shown exactly when no
\* design-document file is selected and the working directory has no
\* changed file, or no file is selected, or no diff is loaded; otherwise
\* Changes is mounted and renders the design-document file view when a
\* design-document file is selected, else the changed-file diff, never
\* nothing.
C22_ChangesContent ==
    props.selectedSection = "Changes"
        => /\ content.component \in {"NoChanges", "Changes"}
           /\ content.component = "NoChanges"
                  <=> /\ SelectedSketchFile \in {NullId, ""}
                      /\ \/ Len(props.files) = 0
                         \/ SelectedFile \in {NullId, ""}
                         \/ props.diff = NoDiff
           /\ content.component = "Changes"
                  => /\ content.rendered # "null"
                     /\ content.rendered =
                            IF SelectedSketchFile \notin {NullId, ""}
                            THEN "SketchFileView" ELSE "changed-file"

C22_Witness ==
    /\ props.selectedSection = "Changes"
    /\ props.selectedSketchFileID = "x"
    /\ props.selectedFileID = "f2"
    /\ Len(props.files) = 2
    /\ props.diff # NoDiff
    /\ content = [component |-> "Changes", rendered |-> "changed-file"]

====
